---------------------------- MODULE Spec2Model ----------------------------
(***************************************************************************)
(* Model of the xmlschema package excerpt:                                 *)
(*   - XsdNotation (components/__init__.py): construction and _parse of a  *)
(*     notation declaration, appending XMLSchemaParseError objects to the  *)
(*     owning schema's error list;                                         *)
(*   - the module-level API (xmlschema/__init__.py): validate, to_dict,    *)
(*     to_json and from_json.                                              *)
(***************************************************************************)
EXTENDS Naturals, Sequences, FiniteSets

VARIABLES
    target_namespace,  \* schema.target_namespace of the owning schema
    schema_errors,     \* schema.errors, the owning schema's error list
    notations,         \* the XsdNotation components built so far, in order
    parse_exc,         \* exception that escaped a notation build ("none" if none)
    api                \* trace and outcome of the last module-level API call

vars == <<target_namespace, schema_errors, notations, parse_exc, api>>

(***************************************************************************)
(* Bounds of the model.                                                    *)
(***************************************************************************)
MaxDecls == 2          \* notation declarations parsed into one schema

(***************************************************************************)
(* Notation declarations.  elem.attrib is a mapping from attribute keys to *)
(* values.  Iteration over the mapping follows a fixed (document) order,   *)
(* abstracted here by the rank of the key.                                 *)
(***************************************************************************)
AttribKeys == {"id", "name", "public", "system", "foo"}

NameValues == {"note"}

Namespaces == {"", "urn:ns"}

KeyRank(k) ==
    CASE k = "id"     -> 1
      [] k = "name"   -> 2
      [] k = "public" -> 3
      [] k = "system" -> 4
      [] k = "foo"    -> 5

AttribValue(k, nm) == IF k = "name" THEN nm ELSE "v"

\* every elem.attrib over AttribKeys
Attribs ==
    { [k \in ks |-> AttribValue(k, nm)] : ks \in SUBSET AttribKeys, nm \in NameValues }

RECURSIVE AttribOrder(_)
\* the keys of a key set, in iteration order
AttribOrder(ks) ==
    IF ks = {} THEN <<>>
    ELSE LET k == CHOOSE x \in ks : \A y \in ks : KeyRank(x) <= KeyRank(y)
         IN  <<k>> \o AttribOrder(ks \ {k})

\* XMLSchemaParseError(message, self); key is the %r argument of the message
XMLSchemaParseError(kind, key, comp) == [kind |-> kind, key |-> key, comp |-> comp]

\* qnames.get_qname: the qualified name of a local name in a namespace
get_qname(uri, name) == <<uri, name>>

\* XsdNotation.__init__: the component before _parse has run
XsdNotation_init(idx, attrib, is_global) ==
    [ idx       |-> idx,
      attrib    |-> attrib,
      is_global |-> is_global,
      name      |-> <<"", IF "name" \in DOMAIN attrib THEN attrib["name"] ELSE "">> ]

\* _parse, lines 57-60
check_global(errs, self) ==
    IF ~self.is_global
    THEN Append(errs, XMLSchemaParseError("not_global", "", self.idx))
    ELSE errs

parse_name_silent(st, ns) ==
    IF "name" \in DOMAIN st.self.attrib
    THEN [st EXCEPT !.self.name = get_qname(ns, st.self.attrib["name"])]
    ELSE st

parse_name_uncaught(st, ns) ==
    IF "name" \in DOMAIN st.self.attrib
    THEN [st EXCEPT !.self.name = get_qname(ns, st.self.attrib["name"])]
    ELSE [st EXCEPT !.exc = "KeyError"]

parse_name_unqualified(st, ns) ==
    IF "name" \in DOMAIN st.self.attrib
    THEN st
    ELSE [st EXCEPT !.errs =
            Append(st.errs, XMLSchemaParseError("no_name", "", st.self.idx))]

\* _parse, lines 61-66: try / except KeyError around the name lookup
parse_name(st, ns) ==
    IF "name" \in DOMAIN st.self.attrib
    THEN [st EXCEPT !.self.name = get_qname(ns, st.self.attrib["name"])]
    ELSE [st EXCEPT !.errs =
            Append(st.errs, XMLSchemaParseError("no_name", "", st.self.idx))]

attr_loop_body_no_id(errs, key, self) ==
    LET e1 == IF key \notin {"name", "public", "system"}
              THEN Append(errs, XMLSchemaParseError("wrong_attribute", key, self.idx))
              ELSE errs
    IN  IF "public" \notin DOMAIN self.attrib /\ "system" \notin DOMAIN self.attrib
        THEN Append(e1, XMLSchemaParseError("no_public_system", "", self.idx))
        ELSE e1

\* _parse, lines 69-76: the body of the loop over elem.attrib
attr_loop_body(errs, key, self) ==
    LET e1 == IF key \notin {"id", "name", "public", "system"}
              THEN Append(errs, XMLSchemaParseError("wrong_attribute", key, self.idx))
              ELSE errs
    IN  IF "public" \notin DOMAIN self.attrib /\ "system" \notin DOMAIN self.attrib
        THEN Append(e1, XMLSchemaParseError("no_public_system", "", self.idx))
        ELSE e1

RECURSIVE attr_loop(_, _, _)
\* _parse, line 68: for key in self.elem.attrib
attr_loop(errs, keys, self) ==
    IF keys = <<>> THEN errs
    ELSE attr_loop(attr_loop_body(errs, Head(keys), self), Tail(keys), self)

\* XsdNotation._parse: the component, the error list and the exception state
\* after the call.  An exception ends the call where it is raised.
XsdNotation_parse(self, errs, ns) ==
    LET s0 == [self |-> self, errs |-> check_global(errs, self), exc |-> "none"]
        s1 == parse_name(s0, ns)
    IN  IF s1.exc # "none" THEN s1
        ELSE [s1 EXCEPT !.errs = attr_loop(s1.errs, AttribOrder(DOMAIN self.attrib), self)]

(***************************************************************************)
(* Building one notation declaration into the schema: the constructor,     *)
(* then _parse.  A build is attempted only while no exception has escaped. *)
(***************************************************************************)
BuildNotation(attrib, is_global) ==
    /\ parse_exc = "none"
    /\ Len(notations) < MaxDecls
    /\ LET self == XsdNotation_init(Len(notations) + 1, attrib, is_global)
           r    == XsdNotation_parse(self, schema_errors, target_namespace)
       IN  /\ schema_errors' = r.errs
           /\ parse_exc' = r.exc
           /\ notations' = IF r.exc = "none" THEN Append(notations, r.self)
                           ELSE notations
    /\ UNCHANGED <<target_namespace, api>>

(***************************************************************************)
(* The module-level API.  Its collaborators (fetch_schema_locations, the   *)
(* schema class and its methods, the json module) are outside the excerpt: *)
(* what they return or raise is an input of the call.  path, converter and *)
(* process_namespaces are handed through unchanged and are left out.       *)
(***************************************************************************)
Docs == {"doc1.xml", "doc2.xml"}

Locations == {"None", "callerLocs"}

NoSchema == [kind |-> "none", origin |-> "", source |-> "", validation |-> "", locations |-> ""]

SchemaSource(src) ==
    [kind |-> "source", origin |-> "", source |-> src, validation |-> "", locations |-> ""]

\* an object for which isinstance(schema, XMLSchema) holds
SchemaInstance(origin, src, validation, locs) ==
    [kind |-> "instance", origin |-> origin, source |-> src,
     validation |-> validation, locations |-> locs]

SchemaArgs ==
    { NoSchema, SchemaSource("given.xsd"),
      SchemaInstance("caller", "own.xsd", "strict", "None"),
      SchemaInstance("caller", "own.xsd", "lax", "None") }

\* the exception classes deriving from XMLSchemaException
LibraryFamily ==
    { "XMLSchemaException", "XMLSchemaOSError", "XMLSchemaAttributeError",
      "XMLSchemaTypeError", "XMLSchemaValueError", "XMLSchemaSyntaxError",
      "XMLSchemaKeyError", "XMLSchemaURLError", "XMLSchemaRegexError",
      "XMLSchemaXPathError", "XMLSchemaParseError", "XMLSchemaValidationError",
      "XMLSchemaDecodeError", "XMLSchemaEncodeError", "XMLSchemaNotBuiltError",
      "XMLSchemaChildrenValidationError" }

\* fetch_schema_locations(xml_document, locations): a (schema, locations) pair, or an error
FetchResults ==
    { [exc |-> "none", schema |-> "fetched.xsd", locations |-> "fetchedLocs"],
      [exc |-> "XMLSchemaValueError", schema |-> "", locations |-> ""] }

\* cls(source, validation='strict', locations=...): a schema, or a build error
BuildResults == {"none", "XMLSchemaParseError", "XMLSchemaURLError"}

\* schema.validate(xml_document, use_defaults): nothing, or a validation error
ValidateResults == {"none", "XMLSchemaValidationError"}

\* keyword arguments of the decoding / encoding: the validation mode, if given,
\* and the other keys given
KwargsSet ==
    [validation : {"absent", "strict", "lax", "skip"},
     others     : SUBSET {"decimal_type", "namespaces"}]

kwargs_keys(kw) ==
    kw.others \cup (IF kw.validation = "absent" THEN {} ELSE {"validation"})

\* json_options: None, or a dictionary (its keys)
JsonOptionsSet ==
    { [given |-> FALSE, keys |-> {}], [given |-> TRUE, keys |-> {}],
      [given |-> TRUE, keys |-> {"indent"}] }

\* keyword arguments json.dump / json.dumps / JSONEncoder accept
JsonEncoderKeys ==
    {"skipkeys", "ensure_ascii", "check_circular", "allow_nan", "cls", "indent",
     "separators", "default", "sort_keys"}

\* schema.to_dict / schema.encode: the result, a (result, errors) pair under
\* validation='lax', or a validation error
DecodeResults(validation) ==
    IF validation = "lax"
    THEN { [exc |-> "none", pair |-> TRUE, errors |-> n] : n \in {0, 1} }
         \cup { [exc |-> "XMLSchemaDecodeError", pair |-> FALSE, errors |-> 0] }
    ELSE IF validation = "skip"
    THEN { [exc |-> "none", pair |-> FALSE, errors |-> 0] }
    ELSE { [exc |-> "none", pair |-> FALSE, errors |-> 0],
           [exc |-> "XMLSchemaValidationError", pair |-> FALSE, errors |-> 0] }

Returned(shape) == [kind |-> "return", shape |-> shape, exc |-> "none"]

Raised(exc) == [kind |-> "raise", shape |-> "", exc |-> exc]

\* the trace of a call before anything has happened
Trace0 ==
    [fetches |-> <<>>, builds |-> <<>>, schema_calls |-> <<>>, json_calls |-> <<>>,
     used |-> NoSchema, outcome |-> Returned("nothing")]

SchemaCall(t, method, doc, use_defaults, kw) ==
    [t EXCEPT !.schema_calls =
        Append(@, [schema |-> t.used, method |-> method, xml_document |-> doc,
                   use_defaults |-> use_defaults, kwargs |-> kw])]

build_schema_caller_locations(t, source, xml_document, locations, fr, br) ==
    LET t1  == IF source.kind = "none"
               THEN [t EXCEPT !.fetches =
                        Append(@, [xml_document |-> xml_document, locations |-> locations])]
               ELSE t
        src == IF source.kind = "none" THEN fr.schema ELSE source.source
    IN  IF source.kind = "none" /\ fr.exc # "none"
        THEN [t1 EXCEPT !.outcome = Raised(fr.exc)]
        ELSE LET t2 == [t1 EXCEPT !.builds =
                          Append(@, [source |-> src, validation |-> "strict",
                                     locations |-> locations])]
             IN  IF br # "none"
                 THEN [t2 EXCEPT !.outcome = Raised(br)]
                 ELSE [t2 EXCEPT !.used = SchemaInstance("built", src, "strict", locations)]

\* if schema is None: schema, locations = fetch_schema_locations(...);
\* cls(schema, validation='strict', locations=locations)
build_schema(t, source, xml_document, locations, fr, br) ==
    LET t1   == IF source.kind = "none"
                THEN [t EXCEPT !.fetches =
                         Append(@, [xml_document |-> xml_document, locations |-> locations])]
                ELSE t
        src  == IF source.kind = "none" THEN fr.schema ELSE source.source
        locs == IF source.kind = "none" THEN fr.locations ELSE locations
    IN  IF source.kind = "none" /\ fr.exc # "none"
        THEN [t1 EXCEPT !.outcome = Raised(fr.exc)]
        ELSE LET t2 == [t1 EXCEPT !.builds =
                          Append(@, [source |-> src, validation |-> "strict",
                                     locations |-> locs])]
             IN  IF br # "none"
                 THEN [t2 EXCEPT !.outcome = Raised(br)]
                 ELSE [t2 EXCEPT !.used = SchemaInstance("built", src, "strict", locs)]

\* if not isinstance(schema, XMLSchema): ... schema = cls(...)
acquire_schema(t, schema, xml_document, locations, fr, br) ==
    IF schema.kind = "instance"
    THEN [t EXCEPT !.used = schema]
    ELSE build_schema(t, schema, xml_document, locations, fr, br)

\* validate(xml_document, schema, cls, use_defaults, locations)
validate_run(xml_document, schema, use_defaults, locations, fr, br, vr) ==
    LET t1 == IF schema.kind = "instance"
              THEN [Trace0 EXCEPT !.used = schema]
              ELSE build_schema(Trace0, schema, xml_document, locations, fr, br)
    IN  IF t1.outcome.kind = "raise" THEN t1
        ELSE LET t2 == SchemaCall(t1, "validate", xml_document, use_defaults, {})
             IN  [t2 EXCEPT !.outcome = IF vr = "none" THEN Returned("nothing")
                                        ELSE Raised(vr)]

\* what schema.to_dict / schema.encode hands back to its caller
decode_outcome(dr) ==
    IF dr.exc # "none" THEN Raised(dr.exc)
    ELSE IF dr.pair THEN Returned("pair") ELSE Returned("result")

\* to_dict(xml_document, schema, cls, path, process_namespaces, locations, **kwargs)
to_dict_run(xml_document, schema, locations, kw, fr, br, dr) ==
    LET t1 == acquire_schema(Trace0, schema, xml_document, locations, fr, br)
    IN  IF t1.outcome.kind = "raise" THEN t1
        ELSE LET t2 == SchemaCall(t1, "to_dict", xml_document, TRUE, kwargs_keys(kw))
             IN  [t2 EXCEPT !.outcome = decode_outcome(dr)]

\* json.dump(obj, fp, **opts) / json.dumps(obj, **opts): an option the encoder
\* does not know is a TypeError
json_serialize(t, to_fp, opts, shape) ==
    LET t1 == [t EXCEPT !.json_calls = Append(@, [to_fp |-> to_fp, opts |-> opts])]
    IN  IF opts \subseteq JsonEncoderKeys
        THEN [t1 EXCEPT !.outcome = Returned(shape)]
        ELSE [t1 EXCEPT !.outcome = Raised("TypeError")]

\* to_json(xml_document, fp, schema, ..., locations, json_options, **kwargs)
to_json_run(xml_document, fp, schema, locations, json_options, kw, fr, br, dr) ==
    LET t1   == acquire_schema(Trace0, schema, xml_document, locations, fr, br)
        jopt == IF json_options.given THEN json_options.keys ELSE {}
        rest == kwargs_keys(kw) \ {"decimal_type", "dict_class"}
    IN  IF t1.outcome.kind = "raise" THEN t1
        ELSE LET t2 == SchemaCall(t1, "to_dict", xml_document, TRUE,
                                  rest \cup {"decimal_type", "dict_class"})
             IN  IF dr.exc # "none" THEN [t2 EXCEPT !.outcome = Raised(dr.exc)]
                 ELSE IF dr.pair
                 THEN IF fp THEN json_serialize(t2, TRUE, rest, "errors")
                      ELSE json_serialize(t2, FALSE, jopt, "pair")
                 ELSE IF fp THEN json_serialize(t2, TRUE, jopt, "nothing")
                      ELSE json_serialize(t2, FALSE, jopt, "result")

\* the JSON documents handed to from_json: a string or a file-like object,
\* well-formed or not
JsonSources == [readable : BOOLEAN, wellformed : BOOLEAN]

\* from_json(source, schema, path, converter, json_options, **kwargs)
from_json_run(source, schema, json_options, kw, dr) ==
    IF schema.kind # "instance"
    THEN [Trace0 EXCEPT !.outcome = Raised("TypeError")]
    ELSE LET t1   == [Trace0 EXCEPT !.used = schema]
             jopt == IF json_options.given THEN json_options.keys ELSE {}
             opts == (jopt \ {"object_hook", "object_pairs_hook"})
                         \cup {"object_hook", "object_pairs_hook"}
             t2   == [t1 EXCEPT !.json_calls =
                         Append(@, [to_fp |-> source.readable, opts |-> opts])]
         IN  IF ~source.wellformed
             THEN [t2 EXCEPT !.outcome = Raised("JSONDecodeError")]
             ELSE LET t3 == SchemaCall(t2, "encode", "json", TRUE,
                                       (kwargs_keys(kw) \ {"dict_class"}) \cup {"dict_class"})
                  IN  [t3 EXCEPT !.outcome = decode_outcome(dr)]

ApiCall(fn, args, t) == [fn |-> fn, args |-> args, trace |-> t]

NoArgs ==
    [xml_document |-> "", fp |-> FALSE, schema |-> NoSchema, locations |-> "None",
     use_defaults |-> TRUE, json_options |-> [given |-> FALSE, keys |-> {}],
     kwargs |-> [validation |-> "absent", others |-> {}]]

validate ==
    /\ api.fn = "none"
    /\ \E doc \in Docs, schema \in SchemaArgs, ud \in BOOLEAN, locs \in Locations,
          fr \in FetchResults, br \in BuildResults, vr \in ValidateResults :
          api' = ApiCall("validate",
                         [NoArgs EXCEPT !.xml_document = doc, !.schema = schema,
                                        !.use_defaults = ud, !.locations = locs],
                         validate_run(doc, schema, ud, locs, fr, br, vr))
    /\ UNCHANGED <<target_namespace, schema_errors, notations, parse_exc>>

to_dict ==
    /\ api.fn = "none"
    /\ \E doc \in Docs, schema \in SchemaArgs, locs \in Locations, kw \in KwargsSet,
          fr \in FetchResults, br \in BuildResults :
          \E dr \in DecodeResults(kw.validation) :
          api' = ApiCall("to_dict",
                         [NoArgs EXCEPT !.xml_document = doc, !.schema = schema,
                                        !.locations = locs, !.kwargs = kw],
                         to_dict_run(doc, schema, locs, kw, fr, br, dr))
    /\ UNCHANGED <<target_namespace, schema_errors, notations, parse_exc>>

to_json ==
    /\ api.fn = "none"
    /\ \E doc \in Docs, fp \in BOOLEAN, schema \in SchemaArgs, locs \in Locations,
          jo \in JsonOptionsSet, kw \in KwargsSet,
          fr \in FetchResults, br \in BuildResults :
          \E dr \in DecodeResults(kw.validation) :
          api' = ApiCall("to_json",
                         [NoArgs EXCEPT !.xml_document = doc, !.fp = fp, !.schema = schema,
                                        !.locations = locs, !.json_options = jo,
                                        !.kwargs = kw],
                         to_json_run(doc, fp, schema, locs, jo, kw, fr, br, dr))
    /\ UNCHANGED <<target_namespace, schema_errors, notations, parse_exc>>

from_json ==
    /\ api.fn = "none"
    /\ \E source \in JsonSources, schema \in SchemaArgs, jo \in JsonOptionsSet,
          kw \in KwargsSet :
          \E dr \in DecodeResults(kw.validation) :
          api' = ApiCall("from_json",
                         [NoArgs EXCEPT !.schema = schema, !.json_options = jo,
                                        !.kwargs = kw],
                         from_json_run(source, schema, jo, kw, dr))
    /\ UNCHANGED <<target_namespace, schema_errors, notations, parse_exc>>

NoCall == ApiCall("none", NoArgs, Trace0)

Init ==
    /\ target_namespace \in Namespaces
    /\ schema_errors = <<>>
    /\ notations = <<>>
    /\ parse_exc = "none"
    /\ api = NoCall

Next ==
    \E attrib \in Attribs, is_global \in BOOLEAN : BuildNotation(attrib, is_global)

Spec == Init /\ [][Next]_vars

NextApi == validate \/ to_dict \/ to_json \/ from_json

SpecApi == Init /\ [][NextApi]_vars

(***************************************************************************)
(* Properties.                                                             *)
(***************************************************************************)
Built == 1..Len(notations)

\* the errors a notation's build appended to the schema's error list
ErrorsOf(i) == SelectSeq(schema_errors, LAMBDA e : e.comp = i)

ErrorsOfKind(i, kind) == SelectSeq(schema_errors, LAMBDA e : e.comp = i /\ e.kind = kind)

WrongAttributeErrors(i, k) ==
    SelectSeq(schema_errors,
              LAMBDA e : e.comp = i /\ e.kind = "wrong_attribute" /\ e.key = k)

HasName(n) == "name" \in DOMAIN n.attrib

LacksIdentifier(n) == "public" \notin DOMAIN n.attrib /\ "system" \notin DOMAIN n.attrib

KnownKeys == {"id", "name", "public", "system"}

Violating(n) == ~n.is_global \/ ~HasName(n) \/ LacksIdentifier(n)

WellFormed(n) ==
    /\ n.is_global
    /\ HasName(n)
    /\ ~LacksIdentifier(n)
    /\ DOMAIN n.attrib \subseteq KnownKeys

Bool2Nat(b) == IF b THEN 1 ELSE 0

\* C1: a notation that is not global, or has no 'name', or has neither 'public'
\* nor 'system', leaves at least one parse error in the schema's error list.
C1_ViolationIsReported ==
    \A i \in Built : Violating(notations[i]) => ErrorsOf(i) # <<>>

C1_Witness ==
    \E i \in Built :
        /\ notations[i].is_global
        /\ ~HasName(notations[i])
        /\ DOMAIN notations[i].attrib = {}
        /\ ErrorsOf(i) # <<>>

\* C2: every notation with neither 'public' nor 'system' gets a parse error
\* for the missing identifier, whatever its attributes, the empty set included.
C2_MissingIdentifierReported ==
    \A i \in Built :
        LacksIdentifier(notations[i]) => ErrorsOfKind(i, "no_public_system") # <<>>

AllowedOutcome ==
    LET o == api.trace.outcome
    IN  \/ o.kind = "return" /\ o.shape \in {"result", "nothing"}
        \/ o.kind = "return" /\ o.shape = "pair" /\ api.args.kwargs.validation = "lax"
        \/ o.kind = "raise" /\ o.exc \in LibraryFamily

\* C4: every call of validate, to_dict, to_json or from_json returns its
\* result, or a (result, errors) pair under validation='lax', or raises an
\* exception of the library's family.
C4_ExitSurface ==
    api.fn \in {"validate", "to_dict", "to_json", "from_json"} => AllowedOutcome

EffectiveJsonOptions ==
    IF api.args.json_options.given THEN api.args.json_options.keys ELSE {}

\* C5: to_json calls the JSON serializer with exactly json_options (empty when
\* None), never with the decoding kwargs; the text goes to fp when fp is given.
C5_SerializerOptions ==
    api.fn = "to_json" =>
        \A k \in 1..Len(api.trace.json_calls) :
            /\ api.trace.json_calls[k].opts = EffectiveJsonOptions
            /\ api.trace.json_calls[k].to_fp = api.args.fp

MethodOf(fn) == IF fn = "validate" THEN "validate" ELSE "to_dict"

\* C6: validate, to_dict and to_json use a schema instance as is (no build, no
\* fetch); with schema None they build from what fetch_schema_locations
\* returns; otherwise they build once from the given source, strict, with the
\* caller's locations.  The document is then processed by one call on that
\* schema, validate passing the caller's use_defaults.
C6_SchemaAcquisition ==
    api.fn \in {"validate", "to_dict", "to_json"} =>
        LET a == api.args
            t == api.trace
        IN  /\ a.schema.kind = "instance" =>
                  /\ t.builds = <<>>
                  /\ t.fetches = <<>>
                  /\ t.used = a.schema
            /\ a.schema.kind = "none" =>
                  /\ t.fetches = << [xml_document |-> a.xml_document,
                                     locations |-> a.locations] >>
                  /\ Len(t.builds) <= 1
                  /\ t.builds = <<>> => t.outcome = Raised("XMLSchemaValueError")
                  /\ \A b \in 1..Len(t.builds) :
                        \E fr \in FetchResults :
                            /\ fr.exc = "none"
                            /\ t.builds[b] = [source |-> fr.schema, validation |-> "strict",
                                              locations |-> fr.locations]
            /\ a.schema.kind = "source" =>
                  /\ t.fetches = <<>>
                  /\ t.builds = << [source |-> a.schema.source, validation |-> "strict",
                                    locations |-> a.locations] >>
            /\ \A b \in 1..Len(t.builds) :
                  t.used # NoSchema =>
                      t.used = SchemaInstance("built", t.builds[b].source, "strict",
                                              t.builds[b].locations)
            /\ Len(t.schema_calls) = (IF t.used = NoSchema THEN 0 ELSE 1)
            /\ \A c \in 1..Len(t.schema_calls) :
                  /\ t.schema_calls[c].schema = t.used
                  /\ t.schema_calls[c].method = MethodOf(api.fn)
                  /\ t.schema_calls[c].xml_document = a.xml_document
                  /\ api.fn = "validate" => t.schema_calls[c].use_defaults = a.use_defaults

C6_Witness ==
    /\ api.fn = "validate"
    /\ api.args.schema.kind = "none"
    /\ api.args.locations = "callerLocs"
    /\ api.args.use_defaults = FALSE
    /\ Len(api.trace.builds) = 1
    /\ Len(api.trace.schema_calls) = 1

C8_NoFalseDiagnostic ==
    [][ (Len(notations') = Len(notations) + 1 /\ WellFormed(notations'[Len(notations')]))
            => /\ schema_errors' = schema_errors
               /\ parse_exc' = "none"
               /\ notations'[Len(notations')].name =
                      <<target_namespace, notations'[Len(notations')].attrib["name"]>> ]_vars

C8_Witness ==
    /\ Len(notations) >= 2
    /\ Violating(notations[1])
    /\ WellFormed(notations[2])
    /\ target_namespace # ""
    /\ schema_errors # <<>>
    /\ ErrorsOf(2) = <<>>
    /\ notations[2].name = <<target_namespace, "note">>

ExpectedErrorCount(n) ==
    Bool2Nat(~n.is_global) + Bool2Nat(~HasName(n))
        + Cardinality(DOMAIN n.attrib \ KnownKeys) + Bool2Nat(LacksIdentifier(n))

\* C9: a notation's build appends (1 if not global) + (1 if 'name' is absent)
\* + (number of keys outside id, name, public, system) + (1 if both 'public'
\* and 'system' are absent) errors: the missing identifier is reported once.
C9_ErrorCount ==
    \A i \in Built : Len(ErrorsOf(i)) = ExpectedErrorCount(notations[i])

=============================================================================
